---------------------------- MODULE Spec2Model ----------------------------
(***************************************************************************)
(* Model of Vortex's notification/dialog action dispatch                   *)
(* (src/src/actions/notifications.ts) and of the extension manager's       *)
(* update check (src/src/extensions/extension_manager/index.ts).           *)
(***************************************************************************)
EXTENDS Integers, Sequences, FiniteSets, TLC

\* ------------------------------------------------------------------------
\* Bounds of the model
\* ------------------------------------------------------------------------
MaxIds == 1
MaxShortIds == 1
MaxActions == 2
MaxTimers == 2
MaxDialogs == 2
MaxDialogActions == 2
MaxInstalled == 2
MaxAvailable == 2

\* ------------------------------------------------------------------------
\* Values
\* ------------------------------------------------------------------------
\* A JavaScript object is a function from its defined properties to their
\* values: o[k] === undefined is k \notin DOMAIN o, delete o[k] is Delete(o, k).
EmptyObject == <<>>

Has(o, k) == k \in DOMAIN o

Delete(o, k) == [x \in DOMAIN o \ {k} |-> o[x]]

Set(o, k, v) == [x \in DOMAIN o \cup {k} |-> IF x = k THEN v ELSE o[x]]

\* process.type of the two Electron process kinds
Procs == {"browser", "renderer"}

\* "assumption is that notification actions are only triggered by the ui"
UIProcess == "renderer"

\* the process whose ipcMain is defined and that answers 'fire-notification-action'
MainProcess == "browser"

\* ids a caller passes explicitly, and ids produced by shortid()
ExplicitIds == 1..MaxIds
ShortId(n) == MaxIds + n + 1
ShortIds == {ShortId(n) : n \in 0..(MaxShortIds - 1)}
AllIds == ExplicitIds \cup ShortIds

\* NotificationFunc: the behaviours an action callback can have towards the
\* function it is given: ignore it, call it before returning, keep it and
\* call it after having returned.
NotificationFunc == {"cbNone", "cbDismiss", "cbDefer"}

TitleOf(cb) == <<"title", cb>>

\* INotificationAction: { title, action }
NotificationAction(cb) == [title |-> TitleOf(cb), action |-> cb]

BoundedSeq(S, n) == UNION {[1..k -> S] : k \in 0..n}

\* the lists of actions over funcs, no function listed twice
ActionLists(funcs) ==
  {l \in BoundedSeq({NotificationAction(cb) : cb \in funcs}, MaxActions) :
     \A i, j \in 1..Len(l) : l[i] = l[j] => i = j}

\* INotification, restricted to the fields the module reads: the notifications
\* with an id among ids or none, actions calling functions of funcs or none,
\* and displayMS among ms or none
INotification(ids, funcs, ms) ==
  {i @@ a @@ d :
     i \in {EmptyObject} \cup {[id |-> x] : x \in ids},
     a \in {EmptyObject} \cup {[actions |-> l] : l \in ActionLists(funcs)},
     d \in {EmptyObject} \cup {[displayMS |-> x] : x \in ms}}

\* the notifications shown in the runs that exercise the timeouts: any id or
\* none, with or without displayMS
TimedNotifications == INotification(ExplicitIds, {"cbNone"}, {1})

\* the notifications shown in the runs that exercise the action callbacks:
\* one id, shown over and over by both processes with every list of actions
ActionNotifications ==
  {n \in INotification({1}, NotificationFunc, {}) : Has(n, "id")}

\* the notifications shown in the runs that exercise the registration: those,
\* and the notification that leaves id, actions and displayMS undefined
RegisteredNotifications == ActionNotifications \cup {EmptyObject}

\* ------------------------------------------------------------------------
\* State
\* ------------------------------------------------------------------------
VARIABLES
  notificationActions,  \* per process: id -> list of callbacks (or Undefined)
  timers,               \* per process: id -> Timer handle (or Undefined)
  timeouts,             \* the setTimeout calls still pending: [handle, proc, id]
  notifications,        \* the store: id -> stored notification (or Undefined)
  shortidCount,         \* number of ids shortid() has generated
  timerCount,           \* number of timers setTimeout has returned
  fired,                \* what the last fireNotificationAction call did
  deferred,             \* function kept by a callback of the last call, to call later
  replaced              \* history: the ids whose notification replaced an active
                        \* one that had a pending timeout

notiVars == <<notificationActions, timers, timeouts, notifications, shortidCount,
              timerCount, fired, deferred, replaced>>

\* the dialogs
VARIABLES
  dialogCount,          \* number of dialogs showDialog has created
  dialogs,              \* the store: id -> dialog displayed
  dialogCallbacks,      \* global.__dialogCallbacks: id -> actions of the closure
  resolutions,          \* per dialog: the values its promise's resolve was called with
  actionCalls,          \* per dialog: the action callbacks invoked, with their input
  dialogLog             \* ids for which 'failed to invoke dialog callback' was logged

dialogVars == <<dialogCount, dialogs, dialogCallbacks, resolutions, actionCalls,
                dialogLog>>

\* the extension manager
VARIABLES
  once,                 \* whether the callback given to context.once has run
  installed,            \* state.session.extensions.installed, as Object.values lists it
  available,            \* state.session.extensions.available
  extensionsUpdate,     \* the time stored by setExtensionsUpdate
  reloadNecessary,      \* localState.reloadNecessary
  reading,              \* the pending readExtensions: "none", or "initial"/"later"
  readFailed,           \* 'Failed to read extension directory' was shown
  updating,             \* the promise of the last updateAvailableExtensions call
  updateable,           \* the extensions its checkForUpdates selected
  installing,           \* indices of updateable whose install is pending
  completed,            \* indices of updateable whose install has resolved
  sent,                 \* the notifications that call has sent, in order
  requested,            \* the install asked for by 'install-extension' or by
                        \* installDependency: "none", pending ("event",
                        \* "dependency") or ended ("installed", "failed",
                        \* "not found")
  downloaded            \* a downloadAndInstallExtension has completed
                        \* successfully since startup

extVars == <<once, installed, available, extensionsUpdate, reloadNecessary, reading,
             readFailed, updating, updateable, installing, completed, sent,
             requested, downloaded>>

vars == <<notiVars, dialogVars, extVars>>

NoFire ==
  [path |-> "none", id |-> 0, process |-> "none", action |-> 0,
   invoked |-> <<>>, requests |-> 0, threw |-> FALSE,
   dismissCalls |-> 0, askedSync |-> FALSE, askedLater |-> FALSE]

InitNotifications ==
  /\ notificationActions = [p \in Procs |-> EmptyObject]
  /\ timers = [p \in Procs |-> EmptyObject]
  /\ timeouts = {}
  /\ notifications = EmptyObject
  /\ shortidCount = 0
  /\ timerCount = 0
  /\ fired = NoFire
  /\ deferred = "none"
  /\ replaced = {}

InitDialogs ==
  /\ dialogCount = 0
  /\ dialogs = EmptyObject
  /\ dialogCallbacks = EmptyObject
  /\ resolutions = EmptyObject
  /\ actionCalls = EmptyObject
  /\ dialogLog = {}

InitExtensions ==
  /\ once = FALSE
  /\ installed = <<>>
  /\ available = <<>>
  /\ extensionsUpdate = "none"
  /\ reloadNecessary = FALSE
  /\ reading = "none"
  /\ readFailed = FALSE
  /\ updating = "none"
  /\ updateable = <<>>
  /\ installing = {}
  /\ completed = {}
  /\ sent = <<>>
  /\ requested = "none"
  /\ downloaded = FALSE

Init == InitNotifications /\ InitDialogs /\ InitExtensions

\* ------------------------------------------------------------------------
\* The store (reducers of ADD_NOTIFICATION / STOP_NOTIFICATION)
\* ------------------------------------------------------------------------
\* "adds a notification to be displayed": a notification with the id of a
\* displayed one takes its place
startNotification(state, storeNoti) == Set(state, storeNoti.id, storeNoti)

\* "dismiss a notification. Takes the id of the notification"
stopNotification(state, id) == Delete(state, id)

\* ------------------------------------------------------------------------
\* Timers
\* ------------------------------------------------------------------------
\* setTimeout: a new Timer, distinct from every one returned before
setTimeout(p, id) == [handle |-> timerCount + 1, proc |-> p, id |-> id]

clearTimeout(pending, h) == {t \in pending : t.handle # h}

\* ------------------------------------------------------------------------
\* addNotification
\* ------------------------------------------------------------------------
\* a registration that lists the callbacks last to first
ActionCallbacksReversed(noti) ==
  IF ~Has(noti, "actions") THEN <<>>
  ELSE [i \in 1..Len(noti.actions) |-> noti.actions[Len(noti.actions) + 1 - i].action]

\* noti.actions === undefined ? [] : noti.actions.map(action => action.action)
ActionCallbacks(noti) ==
  IF ~Has(noti, "actions") THEN <<>>
  ELSE [i \in 1..Len(noti.actions) |-> noti.actions[i].action]

\* JSON.parse(JSON.stringify(noti)): properties holding functions are dropped
JSONAction(a) == [k \in DOMAIN a \ {"action"} |-> a[k]]

JSONClone(noti) ==
  [k \in DOMAIN noti |->
     IF k = "actions" THEN [i \in 1..Len(noti.actions) |-> JSONAction(noti.actions[i])]
                      ELSE noti[k]]

\* the notification dispatched to the store by process p
StoreNotiProcess(p) == p

StoreNoti(noti, p) ==
  LET clone == JSONClone(noti)
      withProcess == Set(clone, "process", StoreNotiProcess(p))
      actions == IF Has(clone, "actions") THEN clone.actions ELSE <<>>
  IN  Set(withProcess, "actions",
          [i \in 1..Len(actions) |-> [title |-> actions[i].title]])

\* the id the notification is shown under
NotiId(notification) ==
  IF ~Has(notification, "id") THEN ShortId(shortidCount) ELSE notification.id

\* the else-if of line 97: an id was given and this process holds a timer for it
ReplacesTimer(p, notification) ==
  Has(notification, "id") /\ Has(timers[p], notification.id)

\* the pending timeouts once the replaced notification's timeout is stopped
StoppedTimeouts(p, notification) ==
  IF ReplacesTimer(p, notification)
    THEN clearTimeout(timeouts, timers[p][notification.id])
    ELSE timeouts

\* the notification shown under id is active and its timeout is pending
TimeoutPending(id) ==
  /\ Has(notifications, id)
  /\ Has(timers[notifications[id].process], id)

AddNotification(p, notification) ==
  LET id == NotiId(notification)
      noti == Set(notification, "id", id)
      pending == StoppedTimeouts(p, notification)
      stopped == IF ReplacesTimer(p, notification) THEN Delete(timers[p], id)
                                                   ELSE timers[p]
  IN  /\ ~Has(notification, "id") => shortidCount < MaxShortIds
      /\ Has(noti, "displayMS") => timerCount < MaxTimers
      /\ shortidCount' = IF Has(notification, "id") THEN shortidCount
                                                    ELSE shortidCount + 1
      /\ notificationActions' =
           [notificationActions EXCEPT ![p] = Set(@, id, ActionCallbacks(noti))]
      /\ notifications' = startNotification(notifications, StoreNoti(noti, p))
      /\ IF Has(noti, "displayMS")
           THEN LET t == setTimeout(p, id)
                IN  /\ timeouts' = pending \cup {t}
                    /\ timers' = [timers EXCEPT ![p] = Set(stopped, id, t.handle)]
                    /\ timerCount' = timerCount + 1
           ELSE /\ timeouts' = pending
                /\ timers' = [timers EXCEPT ![p] = stopped]
                /\ timerCount' = timerCount
      /\ replaced' = IF TimeoutPending(id) THEN replaced \cup {id}
                                            ELSE replaced \ {id}
      /\ UNCHANGED <<fired, deferred>>
      /\ UNCHANGED <<dialogVars, extVars>>

\* ------------------------------------------------------------------------
\* dismissNotification
\* ------------------------------------------------------------------------
\* the ids a caller can name: the explicit ones and those generated so far
KnownIds == ExplicitIds \cup {ShortId(n) : n \in 0..(shortidCount - 1)}

\* the remaining timer handles of process p once id is dismissed there
DismissedTimers(p, id) == [timers EXCEPT ![p] = Delete(@, id)]

\* the body of the promise executor: runs in process p
DismissBody(p, id) ==
  /\ timers' = DismissedTimers(p, id)
  /\ notificationActions' = [notificationActions EXCEPT ![p] = Delete(@, id)]
  /\ notifications' = stopNotification(notifications, id)
  /\ replaced' = replaced \ {id}

\* an explicit call of dismissNotification(id) in process p
DismissNotification(p, id) ==
  /\ DismissBody(p, id)
  /\ UNCHANGED <<timeouts, shortidCount, timerCount, fired, deferred>>
  /\ UNCHANGED <<dialogVars, extVars>>

\* the timeout set by addNotification elapses: resolve(), then
\* dispatch(dismissNotification(noti.id)) in the process that set it
Timeout(t) ==
  /\ t \in timeouts
  /\ timeouts' = timeouts \ {t}
  /\ DismissBody(t.proc, t.id)
  /\ UNCHANGED <<shortidCount, timerCount, fired, deferred>>
  /\ UNCHANGED <<dialogVars, extVars>>

\* ------------------------------------------------------------------------
\* fireNotificationAction
\* ------------------------------------------------------------------------
\* notificationActions[notiId][action] in process p: a TypeError when notiId
\* has no entry, undefined when the list has no element at that index
Throws(p, notiId) == ~Has(notificationActions[p], notiId)

\* a lookup that counts the index from 1
FuncAtFromOne(p, notiId, action) ==
  IF Throws(p, notiId) \/ action < 1 \/ action > Len(notificationActions[p][notiId])
    THEN <<>>
    ELSE <<notificationActions[p][notiId][action]>>

FuncAt(p, notiId, action) ==
  IF Throws(p, notiId) \/ action + 1 > Len(notificationActions[p][notiId])
    THEN <<>>
    ELSE <<notificationActions[p][notiId][action + 1]>>

\* what func(arg) does with arg before it returns, and what it keeps of it
CallsNow(func) == func = "cbDismiss"

Keeps(func) == func = "cbDefer"

\* event.returnValue is a property of Electron's event object, and Electron
\* is not part of the sources: the reply to sendSync is either the value of
\* the first assignment (a setter that sends the reply) or the value the
\* property holds when the listener returns
ReplyOn == {"assignment", "return"}

\* the value sendSync returns for the listener of 'fire-notification-action':
\* event.returnValue = false comes first, event.returnValue = true when the
\* callback calls the function it is given
ReturnValue(notiId, action, replyOn) ==
  LET func == FuncAt(MainProcess, notiId, action)
  IN  IF replyOn = "assignment" THEN FALSE
      ELSE func # <<>> /\ CallsNow(func[1])

\* the branch notiProcess === process.type, run in process p
FireLocal(p, notiId, action) ==
  LET func == FuncAt(p, notiId, action)
      called == func # <<>> /\ CallsNow(func[1])
  IN  /\ fired' = [path |-> "local", id |-> notiId, process |-> p, action |-> action,
                   invoked |-> IF func = <<>> THEN <<>>
                               ELSE <<[func |-> func[1], arg |-> "dismiss"]>>,
                   requests |-> 0,
                   threw |-> Throws(p, notiId),
                   dismissCalls |-> IF called THEN 1 ELSE 0,
                   askedSync |-> called,
                   askedLater |-> FALSE]
      /\ deferred' = IF func # <<>> /\ Keeps(func[1]) THEN "dismiss" ELSE "none"

\* the else branch: ipcRenderer.sendSync, answered by the listener of ipcMain
FireRemote(notiProcess, notiId, action, replyOn) ==
  LET func == FuncAt(MainProcess, notiId, action)
      res == ReturnValue(notiId, action, replyOn)
  IN  /\ fired' = [path |-> "ipc", id |-> notiId, process |-> notiProcess,
                   action |-> action,
                   invoked |-> IF func = <<>> THEN <<>>
                               ELSE <<[func |-> func[1], arg |-> "returnValue"]>>,
                   requests |-> 1,
                   threw |-> Throws(MainProcess, notiId),
                   dismissCalls |-> IF res THEN 1 ELSE 0,
                   askedSync |-> func # <<>> /\ CallsNow(func[1]),
                   askedLater |-> FALSE]
      /\ deferred' = IF func # <<>> /\ Keeps(func[1]) THEN "returnValue" ELSE "none"

\* fireNotificationAction(notiId, notiProcess, action, dismiss), called by the ui
FireNotificationAction(notiId, notiProcess, action) ==
  /\ deferred = "none"
  /\ IF notiProcess = UIProcess
       THEN FireLocal(UIProcess, notiId, action)
       ELSE \E replyOn \in ReplyOn : FireRemote(notiProcess, notiId, action, replyOn)
  /\ UNCHANGED <<notificationActions, timers, timeouts, notifications, shortidCount,
                 timerCount, replaced>>
  /\ UNCHANGED <<dialogVars, extVars>>

\* a callback that kept the function it was given calls it after it returned:
\* the caller's dismiss runs; event.returnValue = true comes after the reply
CallKept ==
  /\ deferred # "none"
  /\ fired' = [fired EXCEPT !.askedLater = TRUE,
                            !.dismissCalls = IF deferred = "dismiss" THEN @ + 1 ELSE @]
  /\ deferred' = "none"
  /\ UNCHANGED <<notificationActions, timers, timeouts, notifications, shortidCount,
                 timerCount, replaced>>
  /\ UNCHANGED <<dialogVars, extVars>>

\* ------------------------------------------------------------------------
\* Dialogs
\* ------------------------------------------------------------------------
\* the labels of the actions of a dialog, and a key that is no action's label
Labels == {"Cancel", "Ok"}

ActionKeys == Labels \cup {"Other"}

Inputs == {"input1", "input2"}

\* an action of DialogActions: label, and action left undefined, returning
\* or throwing
DialogAction == [label : Labels, action : {"undefined", "returns", "throws"}]

\* DialogActions: the lists of actions with different labels
DialogActions ==
  {l \in BoundedSeq(DialogAction, MaxDialogActions) :
     \A i, j \in 1..Len(l) : l[i].label = l[j].label => i = j}

\* the i-th id shortid() returns to showDialog
DialogId(n) == n + 1

DialogIds == {DialogId(n) : n \in 0..(dialogCount - 1)}

\* reducers of SHOW_MODAL_DIALOG / DISMISS_MODAL_DIALOG
addDialog(state, id, labels) == Set(state, id, [id |-> id, actions |-> labels])

dismissDialog(state, id) == Delete(state, id)

\* showDialog(type, title, content, actions)
ShowDialog(actions) ==
  LET id == DialogId(dialogCount)
  IN  /\ dialogCount < MaxDialogs
      /\ dialogCount' = dialogCount + 1
      /\ dialogs' = addDialog(dialogs, id, [i \in 1..Len(actions) |-> actions[i].label])
      /\ dialogCallbacks' = Set(dialogCallbacks, id, actions)
      /\ resolutions' = Set(resolutions, id, <<>>)
      /\ actionCalls' = Set(actionCalls, id, <<>>)
      /\ UNCHANGED dialogLog
      /\ UNCHANGED <<notiVars, extVars>>

\* a find that takes the first action whatever its label
FindFirst(actions, actionKey) == IF actions = <<>> THEN 0 ELSE 1

\* actions.find(iter => iter.label === actionKey): its index, 0 for undefined
Find(actions, actionKey) ==
  IF \E i \in 1..Len(actions) : actions[i].label = actionKey
    THEN CHOOSE i \in 1..Len(actions) :
           /\ actions[i].label = actionKey
           /\ \A j \in 1..(i - 1) : actions[j].label # actionKey
    ELSE 0

\* the closure stored by showDialog, called with (actionKey, input): the
\* callbacks it invokes, whether it throws, and what it resolves the promise with
CallbackInvokes(actions, actionKey, input) ==
  LET i == Find(actions, actionKey)
  IN  IF i # 0 /\ actions[i].action # "undefined"
        THEN <<[label |-> actions[i].label, input |-> input]>>
        ELSE <<>>

CallbackThrows(actions, actionKey) ==
  LET i == Find(actions, actionKey)
  IN  i = 0 \/ actions[i].action = "throws"

CallbackResolves(actions, actionKey, input) ==
  IF CallbackThrows(actions, actionKey) THEN <<>>
  ELSE <<[action |-> actionKey, input |-> input]>>

\* closeDialog(id, actionKey, input)
CloseDialog(id, actionKey, input) ==
  /\ dialogs' = dismissDialog(dialogs, id)
  /\ IF Has(dialogCallbacks, id)
       THEN LET actions == dialogCallbacks[id]
            IN  /\ actionCalls' = [actionCalls EXCEPT ![id] =
                                     @ \o CallbackInvokes(actions, actionKey, input)]
                /\ resolutions' = [resolutions EXCEPT ![id] =
                                     @ \o CallbackResolves(actions, actionKey, input)]
                /\ dialogLog' = IF CallbackThrows(actions, actionKey)
                                  THEN dialogLog \cup {id} ELSE dialogLog
       ELSE \* undefined !== null: calling undefined throws a TypeError
            /\ dialogLog' = dialogLog \cup {id}
            /\ UNCHANGED <<actionCalls, resolutions>>
  /\ dialogCallbacks' = Delete(dialogCallbacks, id)
  /\ UNCHANGED dialogCount
  /\ UNCHANGED <<notiVars, extVars>>

\* a dismissal that also drops the dialog's callback
DismissDialogAndCallback(id) ==
  /\ dialogs' = dismissDialog(dialogs, id)
  /\ dialogCallbacks' = Delete(dialogCallbacks, id)
  /\ UNCHANGED <<dialogCount, resolutions, actionCalls, dialogLog>>
  /\ UNCHANGED <<notiVars, extVars>>

\* dispatch(dismissDialog(id)) alone
DismissDialog(id) ==
  /\ dialogs' = dismissDialog(dialogs, id)
  /\ UNCHANGED <<dialogCount, dialogCallbacks, resolutions, actionCalls, dialogLog>>
  /\ UNCHANGED <<notiVars, extVars>>

\* ------------------------------------------------------------------------
\* Extension manager
\* ------------------------------------------------------------------------
ModIds == {1, 2}

Versions == {"1.0.0", "1.1.0"}

\* an extension as checkForUpdates reads it: version, and modId unless undefined
Extensions == [version : Versions] \cup [modId : ModIds, version : Versions]

\* what readExtensions and fetchAvailableExtensions can resolve with
InstalledLists == BoundedSeq(Extensions, MaxInstalled)

AvailableLists == BoundedSeq(Extensions, MaxAvailable)

\* a find that takes the last entry with the modId
FindLastModId(list, modId) ==
  IF \E i \in 1..Len(list) : Has(list[i], "modId") /\ list[i].modId = modId
    THEN CHOOSE i \in 1..Len(list) :
           /\ Has(list[i], "modId") /\ list[i].modId = modId
           /\ \A j \in (i + 1)..Len(list) :
                ~(Has(list[j], "modId") /\ list[j].modId = modId)
    ELSE 0

\* available.find(iter => iter.modId === modId): its index, 0 for undefined
FindModId(list, modId) ==
  IF \E i \in 1..Len(list) : Has(list[i], "modId") /\ list[i].modId = modId
    THEN CHOOSE i \in 1..Len(list) :
           /\ Has(list[i], "modId") /\ list[i].modId = modId
           /\ \A j \in 1..(i - 1) : ~(Has(list[j], "modId") /\ list[j].modId = modId)
    ELSE 0

\* the reduce of checkForUpdates over Object.values(installed)
RECURSIVE Updateable(_, _)
Updateable(inst, avail) ==
  IF inst = <<>> THEN <<>>
  ELSE LET ext == inst[Len(inst)]
           prev == Updateable(SubSeq(inst, 1, Len(inst) - 1), avail)
           current == IF Has(ext, "modId") THEN FindModId(avail, ext.modId) ELSE 0
       IN  IF ~Has(ext, "modId") THEN prev
           ELSE IF current = 0 THEN prev
           ELSE IF avail[current].version = ext.version THEN prev
           ELSE Append(prev, avail[current])

InfoNotification == [id |-> "extension-updates", type |-> "info"]

SuccessNotification == [id |-> "extension-updates", type |-> "success"]

FetchError == [id |-> "none", type |-> "error"]

\* the callback given to context.once: updateExtensions(true) and
\* updateAvailableExtensions(api), both started, neither awaited
Once ==
  /\ ~once
  /\ once' = TRUE
  /\ reading' = "initial"
  /\ updating' = "fetching"
  /\ UNCHANGED <<installed, available, extensionsUpdate, reloadNecessary, readFailed,
                 updateable, installing, sent>>
  /\ UNCHANGED <<completed, requested, downloaded>>
  /\ UNCHANGED <<notiVars, dialogVars>>

\* updateExtensions(false), called once no read is pending
UpdateExtensions ==
  /\ once
  /\ reading = "none"
  /\ reading' = "later"
  /\ UNCHANGED <<once, installed, available, extensionsUpdate, reloadNecessary,
                 readFailed, updating, updateable, installing, sent>>
  /\ UNCHANGED <<completed, requested, downloaded>>
  /\ UNCHANGED <<notiVars, dialogVars>>

\* readExtensions resolved with ext: the then of genUpdateInstalledExtensions
ReadResolved(ext) ==
  /\ reading # "none"
  /\ reloadNecessary' = IF reading # "initial" /\ installed # ext THEN TRUE
                                                                   ELSE reloadNecessary
  /\ installed' = ext
  /\ reading' = "none"
  /\ readFailed' = FALSE
  /\ UNCHANGED <<once, available, extensionsUpdate, updating, updateable, installing,
                 sent>>
  /\ UNCHANGED <<completed, requested, downloaded>>
  /\ UNCHANGED <<notiVars, dialogVars>>

\* readExtensions rejected: the catch of genUpdateInstalledExtensions
ReadRejected ==
  /\ reading # "none"
  /\ reading' = "none"
  /\ readFailed' = TRUE
  /\ UNCHANGED <<once, installed, available, extensionsUpdate, reloadNecessary,
                 updating, updateable, installing, sent>>
  /\ UNCHANGED <<completed, requested, downloaded>>
  /\ UNCHANGED <<notiVars, dialogVars>>

\* forceUpdateExtensions, called once the previous call has settled and its
\* installs have ended
UpdateAvailableExtensions ==
  /\ once
  /\ updating \in {"resolved", "rejected"}
  /\ installing = {}
  /\ updating' = "fetching"
  /\ updateable' = <<>>
  /\ sent' = <<>>
  /\ UNCHANGED <<once, installed, available, extensionsUpdate, reloadNecessary,
                 reading, readFailed, installing>>
  /\ completed' = {}
  /\ UNCHANGED <<requested, downloaded>>
  /\ UNCHANGED <<notiVars, dialogVars>>

\* the then of updateAvailableExtensions, given { time, extensions }:
\* time.getTime() throws a TypeError when time is null
ThenTimeExtensions(time, extensions, shown) ==
  IF time = "null"
    THEN /\ updating' = "rejected"
         /\ sent' = shown
         /\ UNCHANGED <<extensionsUpdate, available, updateable, installing>>
    ELSE LET selected == Updateable(installed, extensions)
         IN  /\ extensionsUpdate' = time
             /\ available' = extensions
             /\ updateable' = selected
             /\ IF selected = <<>>
                  THEN /\ updating' = "resolved"
                       /\ sent' = shown
                       /\ installing' = {}
                  ELSE /\ updating' = "installing"
                       /\ sent' = Append(shown, InfoNotification)
                       /\ installing' = 1..Len(selected)

\* fetchAvailableExtensions resolved with the extensions
FetchResolved(extensions) ==
  /\ updating = "fetching"
  /\ ThenTimeExtensions("time", extensions, sent)
  /\ UNCHANGED <<once, installed, reloadNecessary, reading, readFailed>>
  /\ UNCHANGED <<completed, requested, downloaded>>
  /\ UNCHANGED <<notiVars, dialogVars>>

\* fetchAvailableExtensions rejected: the catch shows the error and returns
\* { time: null, extensions: [] } to the then
FetchRejected ==
  /\ updating = "fetching"
  /\ ThenTimeExtensions("null", <<>>, Append(sent, FetchError))
  /\ UNCHANGED <<once, installed, reloadNecessary, reading, readFailed>>
  /\ UNCHANGED <<completed, requested, downloaded>>
  /\ UNCHANGED <<notiVars, dialogVars>>

\* a then that runs as soon as one downloadAndInstallExtension has resolved
InstallResolvedFirst(i) ==
  /\ i \in installing
  /\ installing' = installing \ {i}
  /\ completed' = completed \cup {i}
  /\ IF updating = "installing"
       THEN /\ reloadNecessary' = TRUE
            /\ sent' = Append(sent, SuccessNotification)
            /\ updating' = "resolved"
       ELSE UNCHANGED <<reloadNecessary, sent, updating>>
  /\ downloaded' = TRUE
  /\ UNCHANGED <<once, installed, available, extensionsUpdate, reading, readFailed,
                 updateable, requested>>
  /\ UNCHANGED <<notiVars, dialogVars>>

\* downloadAndInstallExtension of updateable[i] resolved; the then of
\* Promise.map runs once all of them have
InstallResolved(i) ==
  /\ i \in installing
  /\ installing' = installing \ {i}
  /\ completed' = completed \cup {i}
  /\ IF updating = "installing" /\ installing' = {}
       THEN /\ reloadNecessary' = TRUE
            /\ sent' = Append(sent, SuccessNotification)
            /\ updating' = "resolved"
       ELSE UNCHANGED <<reloadNecessary, sent, updating>>
  /\ downloaded' = TRUE
  /\ UNCHANGED <<once, installed, available, extensionsUpdate, reading, readFailed,
                 updateable, requested>>
  /\ UNCHANGED <<notiVars, dialogVars>>

\* downloadAndInstallExtension of updateable[i] rejected: Promise.map rejects
InstallRejected(i) ==
  /\ i \in installing
  /\ installing' = installing \ {i}
  /\ updating' = IF updating = "installing" THEN "rejected" ELSE updating
  /\ UNCHANGED <<once, installed, available, extensionsUpdate, reloadNecessary,
                 reading, readFailed, updateable, sent>>
  /\ UNCHANGED <<completed, requested, downloaded>>
  /\ UNCHANGED <<notiVars, dialogVars>>

\* the installs whose downloadAndInstallExtension is pending
PendingRequests == {"event", "dependency"}

\* the 'install-extension' event, emitted while no requested install is
\* pending: downloadAndInstallExtension is started
InstallExtension ==
  /\ once
  /\ requested \notin PendingRequests
  /\ requested' = "event"
  /\ UNCHANGED <<once, installed, available, extensionsUpdate, reloadNecessary,
                 reading, readFailed, updating, updateable, installing, completed,
                 sent, downloaded>>
  /\ UNCHANGED <<notiVars, dialogVars>>

\* availableExtensions.find(iter => iter.name === extName), the name of an
\* available extension being its position in the list: its index, 0 for
\* undefined
FindName(list, extName) == IF extName \in 1..Len(list) THEN extName ELSE 0

\* installDependency(api, extName, updateInstalled), called by the 'Fix'
\* action while no requested install is pending
InstallDependency(extName) ==
  /\ once
  /\ requested \notin PendingRequests
  /\ requested' = IF FindName(available, extName) # 0 THEN "dependency"
                                                       ELSE "not found"
  /\ UNCHANGED <<once, installed, available, extensionsUpdate, reloadNecessary,
                 reading, readFailed, updating, updateable, installing, completed,
                 sent, downloaded>>
  /\ UNCHANGED <<notiVars, dialogVars>>

\* the requested downloadAndInstallExtension resolved, no read pending: its
\* then calls updateExtensions(false)
RequestResolved ==
  /\ requested \in PendingRequests
  /\ reading = "none"
  /\ requested' = "installed"
  /\ downloaded' = TRUE
  /\ reading' = "later"
  /\ UNCHANGED <<once, installed, available, extensionsUpdate, reloadNecessary,
                 readFailed, updating, updateable, installing, completed, sent>>
  /\ UNCHANGED <<notiVars, dialogVars>>

\* the requested downloadAndInstallExtension rejected: updateExtensions is
\* not called
RequestRejected ==
  /\ requested \in PendingRequests
  /\ requested' = "failed"
  /\ UNCHANGED <<once, installed, available, extensionsUpdate, reloadNecessary,
                 reading, readFailed, updating, updateable, installing, completed,
                 sent, downloaded>>
  /\ UNCHANGED <<notiVars, dialogVars>>

\* ------------------------------------------------------------------------
\* Specifications
\* ------------------------------------------------------------------------
\* notifications shown, replaced, dismissed and timing out in both processes
NextNotifications ==
  \/ \E p \in Procs, n \in TimedNotifications : AddNotification(p, n)
  \/ \E p \in Procs, id \in KnownIds : DismissNotification(p, id)
  \/ \E t \in timeouts : Timeout(t)

SpecNotifications == Init /\ [][NextNotifications]_vars

\* notifications shown, replaced, dismissed and timing out in the ui process
NextRenderer ==
  \/ \E n \in TimedNotifications : AddNotification(UIProcess, n)
  \/ \E id \in KnownIds : DismissNotification(UIProcess, id)
  \/ \E t \in timeouts : Timeout(t)

SpecRenderer == Init /\ [][NextRenderer]_vars

\* notifications with actions shown, replaced and dismissed in both processes
NextRegister ==
  \/ \E p \in Procs, n \in RegisteredNotifications : AddNotification(p, n)
  \/ \E p \in Procs, id \in KnownIds : DismissNotification(p, id)

SpecRegister == Init /\ [][NextRegister]_vars

\* notifications shown and dismissed in both processes, their actions
\* triggered by the ui
NextActions ==
  \/ \E p \in Procs, n \in ActionNotifications : AddNotification(p, n)
  \/ \E p \in Procs, id \in KnownIds : DismissNotification(p, id)
  \/ \E id \in KnownIds, p \in Procs, a \in 0..MaxActions :
        FireNotificationAction(id, p, a)
  \/ CallKept

SpecActions == Init /\ [][NextActions]_vars

\* dialogs shown, dismissed and closed
NextDialogs ==
  \/ \E actions \in DialogActions : ShowDialog(actions)
  \/ \E id \in DialogIds : DismissDialog(id)
  \/ \E id \in DialogIds, actionKey \in ActionKeys, input \in Inputs :
        CloseDialog(id, actionKey, input)

SpecDialogs == Init /\ [][NextDialogs]_vars

\* the extension manager from startup on
NextExtensions ==
  \/ Once
  \/ UpdateExtensions
  \/ \E ext \in InstalledLists : ReadResolved(ext)
  \/ ReadRejected
  \/ UpdateAvailableExtensions
  \/ \E extensions \in AvailableLists : FetchResolved(extensions)
  \/ FetchRejected
  \/ \E i \in installing : InstallResolved(i)
  \/ \E i \in installing : InstallRejected(i)
  \/ InstallExtension
  \/ \E extName \in 1..MaxAvailable : InstallDependency(extName)
  \/ RequestResolved
  \/ RequestRejected

SpecExtensions == Init /\ [][NextExtensions]_vars

\* the extension manager at startup: the callback of context.once and what
\* it started
NextStartup ==
  \/ Once
  \/ \E ext \in InstalledLists : ReadResolved(ext)
  \/ ReadRejected
  \/ \E extensions \in AvailableLists : FetchResolved(extensions)
  \/ FetchRejected
  \/ \E i \in installing : InstallResolved(i)
  \/ \E i \in installing : InstallRejected(i)

SpecStartup == Init /\ [][NextStartup]_vars

\* every promise the startup is waiting for is settled at some time
SpecStartupFair == SpecStartup /\ WF_vars(NextStartup)

Next ==
  \/ NextNotifications \/ NextRenderer \/ NextRegister \/ NextActions \/ NextDialogs
  \/ NextExtensions \/ NextStartup

\* ------------------------------------------------------------------------
\* Properties of the notification registry
\* ------------------------------------------------------------------------
\* the callbacks and the titles of a notification as its caller wrote them
CallbacksOf(n) ==
  IF Has(n, "actions") THEN [i \in 1..Len(n.actions) |-> n.actions[i].action] ELSE <<>>

TitlesOf(n) ==
  IF Has(n, "actions") THEN [i \in 1..Len(n.actions) |-> [title |-> n.actions[i].title]]
                       ELSE <<>>

\* every notification the runs can show
AnyNotification == TimedNotifications \cup ActionNotifications

\* in the store, index i of a notification denotes callback i of its owner's entry
IndexDenotesCallback ==
  \A id \in DOMAIN notifications :
    LET owner == notifications[id].process
    IN  /\ Has(notificationActions[owner], id)
        /\ Len(notificationActions[owner][id]) = Len(notifications[id].actions)
        /\ \A i \in 1..Len(notifications[id].actions) :
             notifications[id].actions[i] =
               [title |-> TitleOf(notificationActions[owner][id][i])]

\* C2: register on show. Once addNotification(n) has run in process p, the
\* registry of p maps n's id to exactly n's callbacks in their order (none when
\* n has no actions), the stored notification carries process = p and n's
\* titles, and nothing else, in the same order; and at all times index i of a
\* stored notification denotes callback i of its owner's registry entry.
C2_RegisterOnShow ==
  /\ []IndexDenotesCallback
  /\ [][\A p \in Procs, n \in RegisteredNotifications :
          AddNotification(p, n) =>
            LET id == NotiId(n)
            IN  /\ Has(notificationActions'[p], id)
                /\ notificationActions'[p][id] = CallbacksOf(n)
                /\ Has(notifications', id)
                /\ notifications'[id].process = p
                /\ notifications'[id].actions = TitlesOf(n)]_vars

\* a notification with two different actions is shown by the main process
C2_Witness ==
  \E id \in DOMAIN notifications :
    /\ notifications[id].process = MainProcess
    /\ Len(notifications[id].actions) = 2
    /\ notifications[id].actions[1] # notifications[id].actions[2]
    /\ Has(notificationActions[MainProcess], id)
    /\ notificationActions[MainProcess][id] = <<"cbDismiss", "cbNone">>

\* C3: invoke by index. A call of fireNotificationAction(id, proc, i, dismiss) in
\* the owner process proc invokes exactly the callback at index i of the entry
\* of id, once, with dismiss; without a callback at index i nothing is invoked
\* and dismiss is not called.
C3_InvokeByIndex ==
  [][\A id \in KnownIds, i \in 0..MaxActions :
       FireNotificationAction(id, UIProcess, i) =>
         LET registry == notificationActions[UIProcess]
         IN  IF Has(registry, id) /\ i < Len(registry[id])
               THEN fired'.invoked = <<[func |-> registry[id][i + 1], arg |-> "dismiss"]>>
               ELSE fired'.invoked = <<>> /\ fired'.dismissCalls = 0
                    /\ deferred' = "none"]_vars

\* the second of two callbacks was invoked in the ui process and called dismiss
C3_Witness ==
  /\ fired.path = "local"
  /\ fired.action = 1
  /\ fired.invoked = <<[func |-> "cbDismiss", arg |-> "dismiss"]>>
  /\ fired.dismissCalls = 1

\* C4: delete on dismiss. In every state the ids held in the callback
\* registries of the processes are ids of notifications shown in the store.
C4_DeleteOnDismiss ==
  \A p \in Procs : \A id \in DOMAIN notificationActions[p] : Has(notifications, id)

\* C5: IPC bridge. A call of fireNotificationAction in the ui for a
\* notification of the main process makes one synchronous request, and the
\* caller's dismiss is called if and only if the callback invoked by the main
\* process called the function it was given.
C5_DismissIffAsked ==
  fired.path = "ipc" =>
    /\ fired.requests = 1
    /\ fired.dismissCalls > 0 <=> (fired.askedSync \/ fired.askedLater)

\* C6: auto-dismiss, its second half: a notification added without displayMS
\* leaves the store only through an explicit dismissNotification of its id.
C6_OnlyExplicitDismiss ==
  [][\A id \in DOMAIN notifications :
       (~Has(notifications[id], "displayMS") /\ ~Has(notifications', id)) =>
         \E p \in Procs : DismissNotification(p, id)]_vars

\* C7: when addNotification is called with the id of an active notification
\* that has a pending timeout, that timeout is stopped, the callbacks are the
\* new ones, and the new notification is dismissed by no timeout but its own.
C7_ReplacedTimeoutStopped ==
  /\ [][\A n \in AnyNotification :
          \A p \in Procs :
            (AddNotification(p, n) /\ Has(n, "id") /\ TimeoutPending(n.id)) =>
              LET owner == notifications[n.id].process
              IN  /\ \A t \in timeouts :
                       (t.proc = owner /\ t.handle = timers[owner][n.id])
                         => t \notin timeouts'
                  /\ notificationActions'[p][n.id] = CallbacksOf(n)]_vars
  /\ [][\A t \in timeouts :
          (Timeout(t) /\ t.id \in replaced) =>
            /\ Has(notifications[t.id], "displayMS")
            /\ t.proc = notifications[t.id].process
            /\ Has(timers[t.proc], t.id)
            /\ timers[t.proc][t.id] = t.handle]_vars

\* ------------------------------------------------------------------------
\* Properties of the dialogs
\* ------------------------------------------------------------------------
\* the actions showDialog was given for the dialogs still registered, and the
\* callback of the action labelled actionKey, if it has one
LabelledCallback(id, actionKey, input) ==
  LET actions == dialogCallbacks[id]
  IN  IF \E i \in 1..Len(actions) :
           actions[i].label = actionKey /\ actions[i].action # "undefined"
        THEN <<[label |-> actionKey, input |-> input]>>
        ELSE <<>>

\* C8: a dialog awaits a single user-selected action. The promise of showDialog
\* is resolved only by a closeDialog of its id, at most once, with exactly
\* {action: actionKey, input} as passed to that closeDialog, and after the
\* callback of the action labelled actionKey, if it has one, was invoked once
\* with input; callbacks are invoked by closeDialog only, and never the
\* callback of another action.
C8_SingleAction ==
  /\ [](\A id \in DOMAIN resolutions : Len(resolutions[id]) <= 1)
  /\ [][\A id \in DOMAIN resolutions :
          (resolutions'[id] # resolutions[id] \/ actionCalls'[id] # actionCalls[id]) =>
            \E actionKey \in ActionKeys, input \in Inputs :
              /\ CloseDialog(id, actionKey, input)
              /\ Has(dialogCallbacks, id)
              /\ actionCalls'[id] =
                   actionCalls[id] \o LabelledCallback(id, actionKey, input)
              /\ resolutions'[id] # resolutions[id] =>
                   resolutions'[id] = <<[action |-> actionKey, input |-> input]>>]_vars

\* a dialog was closed with Ok and input2: its Ok callback ran and the promise
\* holds {action: Ok, input: input2}
C8_Witness ==
  \E id \in DOMAIN resolutions :
    /\ resolutions[id] = <<[action |-> "Ok", input |-> "input2"]>>
    /\ actionCalls[id] = <<[label |-> "Ok", input |-> "input2"]>>

\* a dialog none of whose closeDialog calls has run: closeDialog either
\* resolves the promise or logs the failure
NeverClosed(id) == resolutions[id] = <<>> /\ id \notin dialogLog

\* C9: dismissDialog alone leaves the dialog's callback in the registry,
\* invokes no action callback and leaves the promise unresolved; the entry
\* of a dialog leaves the registry through closeDialog only.
C9_DismissKeepsCallback ==
  /\ [](\A id \in DialogIds :
          NeverClosed(id) => Has(dialogCallbacks, id) /\ actionCalls[id] = <<>>)
  /\ [][\A id \in DialogIds :
          /\ DismissDialog(id) =>
               /\ dialogCallbacks' = dialogCallbacks
               /\ actionCalls' = actionCalls
               /\ resolutions' = resolutions
          /\ (Has(dialogCallbacks, id) /\ ~Has(dialogCallbacks', id)) =>
               \E actionKey \in ActionKeys, input \in Inputs :
                 CloseDialog(id, actionKey, input)]_vars

\* a dialog is gone from the store, its callback registered, its promise pending
C9_Witness ==
  \E id \in DialogIds :
    /\ ~Has(dialogs, id)
    /\ Has(dialogCallbacks, id)
    /\ resolutions[id] = <<>>
    /\ actionCalls[id] = <<>>

\* C14: every dialog whose id is passed to closeDialog has its promise
\* resolved: a closeDialog of a dialog whose callback is registered leaves the
\* promise resolved, whatever actionKey is passed and whatever the action's
\* callback does. (closeDialog deletes the callback, the only holder of
\* resolve: a promise it leaves pending stays pending forever.)
C14_CloseResolves ==
  [][\A id \in DialogIds, actionKey \in ActionKeys, input \in Inputs :
       (CloseDialog(id, actionKey, input) /\ Has(dialogCallbacks, id)) =>
         resolutions'[id] # <<>>]_vars

\* ------------------------------------------------------------------------
\* Properties of the extension manager
\* ------------------------------------------------------------------------
\* entry k is the first entry of list with the modId
FirstWithModId(list, k, modId) ==
  /\ Has(list[k], "modId") /\ list[k].modId = modId
  /\ \A j \in 1..(k - 1) : ~(Has(list[j], "modId") /\ list[j].modId = modId)

\* C1: checkForUpdates selects, and installs, exactly the available extensions
\* needing an update: an available extension is selected if and only if some
\* installed extension has a defined modId equal to its modId, it is the
\* first available entry with that modId, and its version differs from the
\* installed one.
C1_ExactlyTheOutdated ==
  [][FetchResolved(available') =>
       /\ \A a \in Extensions :
            (\E i \in 1..Len(updateable') : updateable'[i] = a) <=>
              \E e \in 1..Len(installed), k \in 1..Len(available') :
                /\ Has(installed[e], "modId")
                /\ FirstWithModId(available', k, installed[e].modId)
                /\ available'[k] = a
                /\ a.version # installed[e].version
       /\ installing' = 1..Len(updateable')]_vars

\* of two available entries with the modId of an installed extension the first
\* was selected, an installed extension without modId selected nothing
C1_Witness ==
  /\ updating = "installing"
  /\ Len(available) = 2
  /\ Has(available[1], "modId") /\ Has(available[2], "modId")
  /\ available[1].modId = available[2].modId
  /\ available[1].version # available[2].version
  /\ Len(installed) = 2
  /\ \E e \in 1..2 : ~Has(installed[e], "modId")
  /\ updateable = <<available[1]>>
  /\ installing = {1}

\* C10: when fetchAvailableExtensions fails, updateAvailableExtensions shows
\* the error, then goes on with the empty list: setAvailableExtensions([]) is
\* dispatched, checkForUpdates runs and the promise completes without error.
C10_FetchFailureFallsBack ==
  [][FetchRejected =>
       /\ \E i \in 1..Len(sent') : sent'[i] = FetchError
       /\ available' = <<>>
       /\ updateable' = Updateable(installed, <<>>)
       /\ updating' = "resolved"]_vars

\* the initial updateExtensions(true) has dispatched setInstalledExtensions:
\* at startup the one read has ended, and not in the catch
InitialInstalledDispatched == once /\ reading = "none" /\ ~readFailed

\* C11: at startup the update check compares the fetched list against the
\* installed list read from disk: checkForUpdates never runs before the
\* initial updateExtensions(true) has dispatched setInstalledExtensions,
\* whatever the order in which the read and the fetch complete.
C11_InstalledBeforeCheck ==
  [][(\E extensions \in AvailableLists : FetchResolved(extensions)) =>
       InitialInstalledDispatched]_vars

\* notification n is among those sent by the running updateAvailableExtensions
Sent(n) == \E k \in 1..Len(sent) : sent[k] = n

\* the installs of the update set that have failed
Failed == (1..Len(updateable)) \ (installing \cup completed)

\* C12: checkForUpdates with a non-empty update set sends the
\* 'extension-updates' info notification, then starts
\* downloadAndInstallExtension for every selected extension; reloadNecessary
\* is set and the 'Extensions updated' notification sent only once all of
\* them have completed successfully, and neither happens if an install has
\* failed. With an empty update set no notification is sent, nothing is
\* installed and reloadNecessary is unchanged.
C12_UpdateOrder ==
  /\ [][\A extensions \in AvailableLists : FetchResolved(extensions) =>
          /\ reloadNecessary' = reloadNecessary
          /\ completed' = completed
          /\ IF Updateable(installed, extensions) = <<>>
               THEN sent' = sent /\ installing' = {} /\ updating' = "resolved"
               ELSE /\ sent' = Append(sent, InfoNotification)
                    /\ installing' = 1..Len(Updateable(installed, extensions))]_vars
  /\ [][(reloadNecessary' # reloadNecessary \/ sent' # sent) =>
          \/ \E extensions \in AvailableLists : FetchResolved(extensions)
          \/ FetchRejected
          \/ /\ \E i \in installing : InstallResolved(i)
             /\ completed' = 1..Len(updateable)
             /\ updateable # <<>>
             /\ sent = <<InfoNotification>>
             /\ sent' = <<InfoNotification, SuccessNotification>>
             /\ reloadNecessary']_vars
  /\ [](Failed # {} => ~Sent(SuccessNotification) /\ ~reloadNecessary)
  /\ []((installing = {} /\ completed = 1..Len(updateable) /\ updateable # <<>>) =>
          Sent(SuccessNotification) /\ reloadNecessary)

\* two extensions were selected, both installs have completed: the info and
\* then the success notification were sent and reloadNecessary is set
C12_Witness ==
  /\ Len(updateable) = 2
  /\ completed = {1, 2}
  /\ sent = <<InfoNotification, SuccessNotification>>
  /\ reloadNecessary

\* C13: whenever downloadAndInstallExtension has completed successfully for
\* at least one extension during the session, reloadNecessary eventually
\* becomes true, and once true it is never set back to false.
C13_InstallLeadsToReload ==
  /\ downloaded ~> reloadNecessary
  /\ [][reloadNecessary => reloadNecessary']_vars

=============================================================================
